---- MODULE Spec2Model ----
(***************************************************************************)
(* todo-track: the snapshot store (storage.rs), the `scan`, `list`,        *)
(* `trend` and `check` commands that use it, the blame facility (git.rs),  *)
(* the comment parser (parser.rs) and the tree walker (scanner.rs).        *)
(*                                                                         *)
(* One invocation of the tool runs at a time (the tool is single-threaded  *)
(* and synchronous).  An invocation opens a connection, runs its command   *)
(* and exits; the connection is dropped at exit.                           *)
(***************************************************************************)
EXTENDS Integers, Sequences, FiniteSets, TLC

\* ------------------------------------------------------------------ bounds
MaxSnapshots == 2       \* snapshots saved in one behaviour
MaxTodos == 2           \* markers in one scan result
MaxLine == 2            \* highest line number of a marker
MaxCount == 10          \* markers of one snapshot in a trend history
MaxHistory == 4         \* snapshots of a trend history
MaxBlocks == 3          \* lines of a blamed file
MaxTokens == 3          \* tokens after the first word of a parsed line
MaxDepth == 2           \* directories between the root and a file
MaxFiles == 2           \* regular files of a scanned tree

\* ----------------------------------------------------------------- options
\* Rust's Option<T>: None is the empty tuple, Some(x) the 1-tuple.
None == <<>>
Some(x) == <<x>>
IsSome(o) == o # None
Unwrap(o) == o[1]

\* -------------------------------------------------------------- file paths
\* A path (PathBuf) is a sequence of units.  "xFF" is a byte that is not
\* valid UTF-8 (a Unix file name is any byte string); "uFFFD" is the
\* replacement character U+FFFD, which is valid text.
InvalidUnits == {"xFF"}

\* Path::to_string_lossy: every invalid unit becomes U+FFFD.
ToStringLossy(p) ==
    [i \in 1..Len(p) |-> IF p[i] \in InvalidUnits THEN "uFFFD" ELSE p[i]]

\* Byte order of the units of a stored (valid) string: ASCII before U+FFFD.
UnitRank(u) == CASE u = "a" -> 1 [] u = "b" -> 2 [] OTHER -> 3

\* The BINARY collation of SQLite's ORDER BY: bytewise, a prefix first.
RECURSIVE StrLess(_, _)
StrLess(s, t) ==
    IF t = <<>> THEN FALSE
    ELSE IF s = <<>> THEN TRUE
    ELSE IF UnitRank(Head(s)) # UnitRank(Head(t))
         THEN UnitRank(Head(s)) < UnitRank(Head(t))
         ELSE StrLess(Tail(s), Tail(t))

\* ------------------------------------------------------- the scan's markers
\* parser.rs TodoItem and scanner.rs FileTodo
TodoItem(ln, kw, au, ir, de) ==
    [line_number |-> ln, keyword |-> kw, author |-> au, issue_ref |-> ir,
     description |-> de]
FileTodo(p, it) == [file_path |-> p, item |-> it]

\* The markers a scan can find: two in file a, and one in a file whose name
\* is not valid UTF-8.
MarkerPool ==
    { FileTodo(<<"a">>, TodoItem(1, "TODO", None, None, "fix this later")),
      FileTodo(<<"a">>, TodoItem(MaxLine, "FIXME", Some("alice"), Some("#42"),
                                 "broken sorting see #42")),
      FileTodo(<<"b", "xFF">>, TodoItem(1, "HACK", Some(""), None, "")) }

\* A scan result: up to MaxTodos markers, in the order of the walk: the files
\* in any order, the markers of one file together and by ascending line.
ScanResults ==
    UNION { { s \in [1..n -> MarkerPool] :
                /\ \A i, j \in 1..n : i # j => s[i] # s[j]
                /\ \A i, j \in 1..n :
                     (i < j /\ s[i].file_path = s[j].file_path) =>
                        /\ s[i].item.line_number < s[j].item.line_number
                        /\ \A k \in i..j : s[k].file_path = s[i].file_path }
            : n \in 0..MaxTodos }

\* Utc::now() formatted "%Y-%m-%d %H:%M:%S": the wall clock is an input, and
\* the stored text is never parsed again.
Timestamps == {"2024-01-01 00:00:00"}

\* ------------------------------------------------------------------- state
VARIABLES
    snapshots,  \* committed rows of table snapshots
    todos,      \* committed rows of table todos
    txn,        \* None, or Some(view): the connection's open transaction
    pc,         \* "idle", or where the running invocation is
    ret,        \* None, or Some(r): how the invocation's command ended (the
                \* Result that main propagates, or a process::exit)
    arg,        \* the marker list handed to save_snapshot
    pre,        \* the connection's view before the invocation's command
    opts,       \* list: [blame, repo]: --blame, and is_git_repo(root) (which
                \* `blame && is_git_repo(..)` asks only with --blame)
    mem,        \* list: the Vec<StoredTodo> `todos`
    mem0,       \* list: `todos` as read from the store
    files,      \* list: the keys of by_file not yet iterated
    cur,        \* list: None, or Some(key of by_file being distributed)
    idxq,       \* list: the indices of that file not yet distributed
    results,    \* list: file |-> what blame_file_lines returned for it
    upd_failed, \* list: ids of the rows whose update_git_blame failed
    blame_calls,\* list: git blame processes spawned
    trend_out,  \* trend: the rows printed
    max,        \* check: None, or Some(--max)
    oldest,     \* list: --oldest (None, or Some(n)), as read at line 81
    warned,     \* list: the --oldest warning was written to stderr
    shown,      \* list: the rows printed
    blame_stdout, \* blame_file_lines: the output of git blame --porcelain
    blame_lines,  \* blame_file_lines: the line numbers asked for
    blame_result, \* blame_file_lines: None, or Some(what it returned)
    text,         \* parse_line: the line, a sequence of characters
    text_ln,      \* parse_line: the line number
    parsed,       \* parse_line: None, or Some(what it returned)
    tree,         \* scan_directory: the root's name and the files under it
    scanned       \* scan_directory: None, or Some(ScanResult)

store == <<snapshots, todos, txn>>
scanv == <<arg, pre>>
listv == <<opts, mem, mem0, files, cur, idxq, results, upd_failed, blame_calls>>
printv == <<oldest, warned, shown>>
blamev == <<blame_stdout, blame_lines, blame_result>>
parsev == <<text, text_ln, parsed>>
walkv == <<tree, scanned>>
purev == <<blamev, parsev, walkv>>
vars == <<store, pc, ret, scanv, listv, trend_out, max, printv, purev>>

\* The database as one value.
Db(s, t) == [snapshots |-> s, todos |-> t]
Committed == Db(snapshots, todos)

\* What a statement on the connection reads: its own open transaction's
\* rows if it has one, else the committed rows.
View == IF IsSome(txn) THEN Unwrap(txn) ELSE Committed

\* ------------------------------------------------------------------ schema
\* INTEGER PRIMARY KEY without AUTOINCREMENT: one more than the largest
\* rowid of the table, 1 for an empty table.
MaxId(rows) == IF rows = {} THEN 0
               ELSE CHOOSE m \in {r.id : r \in rows} :
                        \A r \in rows : r.id <= m
\* NextRowid as a bug would have it: the first rowid again.
NextRowidFirst(rows) == 1

NextRowid(rows) == MaxId(rows) + 1

\* INSERT INTO snapshots (timestamp, todo_count)
InsertSnapshot(v, ts, count) ==
    [v EXCEPT !.snapshots = @ \cup
        {[id |-> NextRowid(v.snapshots), timestamp |-> ts,
          todo_count |-> count]}]

\* INSERT INTO todos (...): the enrichment columns are left NULL.
InsertTodo(v, sid, ft) ==
    [v EXCEPT !.todos = @ \cup
        {[id |-> NextRowid(v.todos), snapshot_id |-> sid,
          file_path |-> ToStringLossy(ft.file_path),
          line_number |-> ft.item.line_number,
          keyword |-> ft.item.keyword,
          author |-> ft.item.author,
          issue_ref |-> ft.item.issue_ref,
          description |-> ft.item.description,
          git_author |-> None, git_date |-> None]}]

\* The first n iterations of save_snapshot's `for ft in todos`.
RECURSIVE InsertTodos(_, _, _, _)
InsertTodos(v, sid, fts, n) ==
    IF n = 0 THEN v
    ELSE InsertTodo(InsertTodos(v, sid, fts, n - 1), sid, fts[n])

\* Rollback as a bug would have it: the rows inserted so far are kept.
RollbackKeeps(db, pending) == pending

\* ROLLBACK: the connection's view is the committed database again.
Rollback(db, pending) == db

\* Where save_snapshot can fail: at BEGIN, at the snapshot insert, at
\* prepare, at the k-th todo insert, or at COMMIT.  After a failed COMMIT
\* SQLite has either rolled the transaction back ("commit": I/O error, disk
\* full) or left it active ("commit_busy": SQLITE_BUSY, after which "the
\* transaction remains active and the COMMIT can be retried").
FailPoints(fts) ==
    { <<k>> : k \in {"none", "begin", "snapshot", "prepare", "commit",
                     "commit_busy"} }
        \cup { <<"todo", k>> : k \in 1..Len(fts) }

Ok(x) == <<"Ok", x>>
Err == <<"Err">>

\* storage.rs save_snapshot: [db, txn, ret] after the call on a connection
\* with no open transaction.
SaveSnapshot(db, fts, ts, fail) ==
    LET todo_count == Len(fts)
        snapshot_id == NextRowid(db.snapshots)       \* last_insert_rowid()
        v1 == InsertSnapshot(db, ts, todo_count)
        inserted == IF fail[1] = "todo" THEN fail[2] - 1 ELSE Len(fts)
        pending == IF fail[1] = "snapshot" THEN db
                   ELSE IF fail[1] = "prepare" THEN v1
                   ELSE InsertTodos(v1, snapshot_id, fts, inserted)
        result == IF fail[1] \in {"snapshot", "prepare", "todo"}
                  THEN Err ELSE Ok(snapshot_id)
    IN  IF fail[1] = "begin" THEN [db |-> db, txn |-> None, ret |-> Err]
        ELSE IF result = Err
             THEN [db |-> Rollback(db, pending), txn |-> None, ret |-> Err]
        ELSE IF fail[1] = "commit"
             THEN [db |-> db, txn |-> None, ret |-> Err]
        ELSE IF fail[1] = "commit_busy"
             THEN [db |-> db, txn |-> Some(pending), ret |-> Err]
        ELSE [db |-> pending, txn |-> None, ret |-> result]

\* ----------------------------------------------------------------- queries
\* SELECT ... FROM snapshots ORDER BY id ASC
RECURSIVE OrderById(_)
OrderById(rows) ==
    IF rows = {} THEN <<>>
    ELSE LET last == CHOOSE r \in rows : r.id = MaxId(rows)
         IN  Append(OrderById(rows \ {last}), last)

get_snapshots(v) == OrderById(v.snapshots)

\* SELECT ... ORDER BY id DESC LIMIT 1
get_latest_snapshot(v) ==
    IF v.snapshots = {} THEN None
    ELSE Some(CHOOSE r \in v.snapshots : r.id = MaxId(v.snapshots))

\* ORDER BY file_path, line_number
TodoBefore(r, s) ==
    \/ StrLess(r.file_path, s.file_path)
    \/ r.file_path = s.file_path /\ r.line_number < s.line_number

\* Every result get_todos_for_snapshot can return: the rows of the snapshot
\* in an order that respects ORDER BY (rows that tie come in any order).
get_todos_for_snapshot(v, snapshot_id) ==
    LET rows == {r \in v.todos : r.snapshot_id = snapshot_id}
        n == Cardinality(rows)
    IN  { s \in [1..n -> rows] :
            /\ \A i, j \in 1..n : i # j => s[i] # s[j]
            /\ \A i, j \in 1..n : i < j => ~TodoBefore(s[j], s[i]) }

\* ------------------------------------------------------- the blame facility
\* One line of `git blame --porcelain` output.  A header line starts with a
\* 40-digit commit id and carries the final line number as its third field;
\* `author <name>` and `author-time <unix-timestamp>` lines follow the first
\* header of a commit; every other line (author-mail, summary, filename, the
\* tab-prefixed content line) is neither.
Hdr(commit, final) == [kind |-> "hdr", text |-> commit, num |-> final]
Author(name) == [kind |-> "author", text |-> name, num |-> 0]
AuthorTime(ts) == [kind |-> "author-time", text |-> "", num |-> ts]
Other == [kind |-> "other", text |-> "", num |-> 0]

\* "%02d"
Pad2(n) == IF n < 10 THEN "0" \o ToString(n) ELSE ToString(n)

\* chrono's DateTime::from_timestamp(ts, 0) formatted "%Y-%m-%d": the civil
\* date of the day that holds second ts (years 1000 to 9999).
FormatDate(ts) ==
    LET days == ts \div 86400
        z == days + 719468
        era == z \div 146097
        doe == z - era * 146097
        yoe == (doe - doe \div 1460 + doe \div 36524 - doe \div 146096) \div 365
        doy == doe - (365 * yoe + yoe \div 4 - yoe \div 100)
        mp == (5 * doy + 2) \div 153
        d == doy - (153 * mp + 2) \div 5 + 1
        m == IF mp < 10 THEN mp + 3 ELSE mp - 9
        y == yoe + era * 400 + (IF m <= 2 THEN 1 ELSE 0)
    IN  ToString(y) \o "-" \o Pad2(m) \o "-" \o Pad2(d)

Unknown == "Unknown"
BlameInfo(a, d) == [author |-> a, date |-> d]

\* git.rs blame_file_lines, lines 96-103 and 121-128: the block read so far
\* is kept if its line number is wanted.
SaveBlock(st, wanted) ==
    IF IsSome(st.line) /\ Unwrap(st.line) \in wanted
    THEN [l \in DOMAIN st.results \cup {Unwrap(st.line)} |->
            IF l = Unwrap(st.line) THEN BlameInfo(st.author, st.date)
            ELSE st.results[l]]
    ELSE st.results

\* The loop body of git.rs lines 92-118 on one line of output.
ParseLine(st, line, wanted) ==
    IF line.kind = "hdr"
    THEN [line |-> Some(line.num), author |-> Unknown, date |-> Unknown,
          results |-> SaveBlock(st, wanted)]
    ELSE IF line.kind = "author" THEN [st EXCEPT !.author = line.text]
    ELSE IF line.kind = "author-time"
         THEN [st EXCEPT !.date = FormatDate(line.num)]
    ELSE st

RECURSIVE ParseLines(_, _, _)
ParseLines(out, n, wanted) ==
    IF n = 0
    THEN [line |-> None, author |-> Unknown, date |-> Unknown,
          results |-> <<>>]
    ELSE ParseLine(ParseLines(out, n - 1, wanted), out[n], wanted)

\* What git answers for a file: a failure (it cannot run, or exits non-zero),
\* or porcelain output.
GitFail == [ok |-> FALSE, out |-> <<>>]
GitOk(out) == [ok |-> TRUE, out |-> out]

\* blame_file_lines as a bug would have it: one process for each line (as
\* with blame_line).
blame_per_line(git, line_numbers) ==
    IF line_numbers = {} THEN [calls |-> 0, ok |-> TRUE, map |-> <<>>]
    ELSE IF ~git.ok
         THEN [calls |-> Cardinality(line_numbers), ok |-> FALSE, map |-> <<>>]
    ELSE [calls |-> Cardinality(line_numbers), ok |-> TRUE,
          map |-> SaveBlock(ParseLines(git.out, Len(git.out), line_numbers),
                            line_numbers)]

\* git.rs blame_file_lines: no process is spawned for an empty request.
\* [calls, ok, map]: the processes spawned and the Result.
blame_file_lines(git, line_numbers) ==
    IF line_numbers = {} THEN [calls |-> 0, ok |-> TRUE, map |-> <<>>]
    ELSE IF ~git.ok THEN [calls |-> 1, ok |-> FALSE, map |-> <<>>]
    ELSE [calls |-> 1, ok |-> TRUE,
          map |-> SaveBlock(ParseLines(git.out, Len(git.out), line_numbers),
                            line_numbers)]

\* The answers of git in the model: a failure; each line by its own commit;
\* a file that has a single line.
GitAnswers ==
    { GitFail,
      GitOk(<<Hdr("c1", 1), Author("alice"), AuthorTime(1704153600), Other,
              Hdr("c2", MaxLine), Author("bob"), AuthorTime(86399), Other>>),
      GitOk(<<Hdr("c2", 1), Author("bob"), AuthorTime(86399), Other>>) }

\* The commits of a blamed file, with the author and author-time that git
\* prints for each.
Commits == {"c1", "c2", "c3"}
CommitAuthor(c) ==
    CASE c = "c1" -> "alice" [] c = "c2" -> "bob" [] c = "c3" -> "carol"
CommitTime(c) ==
    CASE c = "c1" -> 1704153600 [] c = "c2" -> 86399 [] c = "c3" -> 951782400

\* What `git blame --porcelain` prints for a file whose line i was last
\* changed by commit cs[i]: for each line a header and the content line; the
\* author, author-time and the other commit lines follow the header only
\* the first time the commit is named (each time with --line-porcelain,
\* which blame_file_lines does not pass).
RECURSIVE Porcelain(_, _)
Porcelain(cs, n) ==
    IF n = 0 THEN <<>>
    ELSE Porcelain(cs, n - 1)
         \o <<Hdr(cs[n], n)>>
         \o (IF \E k \in 1..(n - 1) : cs[k] = cs[n] THEN <<>>
             ELSE <<Author(CommitAuthor(cs[n])),
                    AuthorTime(CommitTime(cs[n])), Other>>)
         \o <<Other>>

\* The files blamed: 1 to MaxBlocks lines, each by any of the commits.
BlamedFiles == UNION { [1..n -> Commits] : n \in 1..MaxBlocks }

\* git.rs blame_file_lines on the output for such a file (git succeeded).
BlameFile ==
    /\ pc = "idle"
    /\ \E cs \in BlamedFiles, ls \in SUBSET (1..MaxBlocks) :
         LET out == Porcelain(cs, Len(cs))
         IN  /\ blame_stdout' = out
             /\ blame_lines' = ls
             /\ blame_result' = Some(blame_file_lines(GitOk(out), ls))
    /\ UNCHANGED <<store, pc, ret, scanv, listv, trend_out, max, printv,
                   parsev, walkv>>

\* ------------------------------------------------------- the comment parser
\* A line is a sequence of characters, each a one-character string; "u212A"
\* is the character U+212A (KELVIN SIGN).
UpperLetters == {"A", "C", "D", "E", "F", "H", "I", "K", "M", "O", "T", "X"}
LowerLetters == {"a", "c", "d", "e", "f", "h", "i", "k", "l", "m", "o", "p",
                 "r", "t", "u", "x", "y"}
Digits == {"2", "4"}

\* char::to_uppercase (U+212A is an uppercase letter: it stays).
ToUpper(c) ==
    CASE c = "a" -> "A" [] c = "c" -> "C" [] c = "d" -> "D" [] c = "e" -> "E"
      [] c = "f" -> "F" [] c = "h" -> "H" [] c = "i" -> "I" [] c = "k" -> "K"
      [] c = "l" -> "L" [] c = "m" -> "M" [] c = "o" -> "O" [] c = "p" -> "P"
      [] c = "r" -> "R" [] c = "t" -> "T" [] c = "u" -> "U" [] c = "x" -> "X"
      [] c = "y" -> "Y" [] OTHER -> c

\* (?i) of the regex crate: two characters match if Unicode simple case
\* folding maps them to the same character; K, k and U+212A fold together.
Fold(c) == IF c = "u212A" THEN "K" ELSE ToUpper(c)

\* \w of the regex crate (Unicode): letters, digits and the underscore.
IsWord(c) ==
    c \in UpperLetters \cup LowerLetters \cup Digits \cup {"_", "u212A"}

\* \s, and the characters str::trim removes.
IsSpace(c) == c = " "

\* \b before position i of s.
WordBoundary(s, i) ==
    (i > 1 /\ i - 1 <= Len(s) /\ IsWord(s[i - 1]))
        # (i >= 1 /\ i <= Len(s) /\ IsWord(s[i]))

\* str::trim
RECURSIVE TrimStart(_)
TrimStart(s) ==
    IF s # <<>> /\ IsSpace(Head(s)) THEN TrimStart(Tail(s)) ELSE s
RECURSIVE TrimEnd(_)
TrimEnd(s) ==
    IF s # <<>> /\ IsSpace(s[Len(s)]) THEN TrimEnd(SubSeq(s, 1, Len(s) - 1))
    ELSE s
Trim(s) == TrimEnd(TrimStart(s))

\* The String of a sequence of characters.
RECURSIVE Str(_)
Str(s) == IF s = <<>> THEN "" ELSE Head(s) \o Str(Tail(s))

\* str::contains
Contains(s, sub) ==
    \E i \in 1..(Len(s) - Len(sub) + 1) : SubSeq(s, i, i + Len(sub) - 1) = sub

\* parser.rs COMMENT_MARKERS
COMMENT_MARKERS ==
    << <<"/", "/">>, <<"#">>, <<"/", "*">>, <<"<", "!", "-", "-">>, <<"*">>,
       <<"-", "-">> >>

\* parser.rs line_has_comment_marker
line_has_comment_marker(s) ==
    \E k \in DOMAIN COMMENT_MARKERS : Contains(Trim(s), COMMENT_MARKERS[k])

\* The alternatives of TODO_RE's first group, in their order.
Keywords ==
    << <<"T", "O", "D", "O">>, <<"F", "I", "X", "M", "E">>,
       <<"H", "A", "C", "K">>, <<"X", "X", "X">> >>

\* (?i)kw matches s at position i.
KeywordAt(s, i, kw) ==
    /\ i + Len(kw) - 1 <= Len(s)
    /\ \A k \in 1..Len(kw) : Fold(s[i + k - 1]) = Fold(kw[k])

\* `(?:\(([^)]+)\))?` tried at position p: the position of the closing
\* parenthesis, 0 if the group does not match there.  [^)]+ needs one
\* character at least, and cannot pass a closing parenthesis.
CloseParen(s, p) ==
    IF /\ p <= Len(s) /\ s[p] = "("
       /\ \E r \in (p + 2)..Len(s) :
            s[r] = ")" /\ \A k \in (p + 1)..(r - 1) : s[k] # ")"
    THEN CHOOSE r \in (p + 2)..Len(s) :
            s[r] = ")" /\ \A k \in (p + 1)..(r - 1) : s[k] # ")"
    ELSE 0

\* The greedy `\s*` from position a: the position after the white space.
RECURSIVE SkipSpace(_, _)
SkipSpace(s, a) ==
    IF a <= Len(s) /\ IsSpace(s[a]) THEN SkipSpace(s, a + 1) ELSE a

\* `:?\s*(.+)` from position p <= Len(s): where group 3 starts.  The colon
\* and the white space are taken greedily, and given back (the white space
\* first) when nothing would be left for `.+`.
DescStart(s, p) ==
    LET a == IF s[p] = ":" THEN p + 1 ELSE p
        b == SkipSpace(s, a)
    IN  IF b <= Len(s) THEN b
        ELSE IF b > a THEN b - 1
        ELSE p

\* TODO_RE tried at position i with alternative kw: None, or Some of the
\* groups [keyword, author, description].  The author group is kept only
\* if the rest of the pattern matches after it.
MatchAt(s, i, kw) ==
    LET p == i + Len(kw)
        r == CloseParen(s, p)
    IN  IF ~(WordBoundary(s, i) /\ KeywordAt(s, i, kw) /\ WordBoundary(s, p))
        THEN None
        ELSE IF r > 0 /\ r + 1 <= Len(s)
        THEN Some([keyword |-> SubSeq(s, i, p - 1),
                   author |-> Some(SubSeq(s, p + 1, r - 1)),
                   description |-> SubSeq(s, DescStart(s, r + 1), Len(s))])
        ELSE IF p <= Len(s)
        THEN Some([keyword |-> SubSeq(s, i, p - 1),
                   author |-> None,
                   description |-> SubSeq(s, DescStart(s, p), Len(s))])
        ELSE None

\* TODO_RE.captures(line): the match at the leftmost position that has one.
RECURSIVE Captures(_, _)
Captures(s, i) ==
    IF i > Len(s) THEN None
    ELSE IF \E k \in DOMAIN Keywords : IsSome(MatchAt(s, i, Keywords[k]))
         THEN LET k == CHOOSE j \in DOMAIN Keywords :
                          /\ IsSome(MatchAt(s, i, Keywords[j]))
                          /\ \A h \in 1..(j - 1) :
                               ~IsSome(MatchAt(s, i, Keywords[h]))
              IN  MatchAt(s, i, Keywords[k])
         ELSE Captures(s, i + 1)

\* ISSUE_RE.captures(d) formatted "#{}": the first `#` that a digit
\* follows, with all the digits that follow it.
RECURSIVE DigitsFrom(_, _)
DigitsFrom(d, i) ==
    IF i <= Len(d) /\ d[i] \in Digits THEN <<d[i]>> \o DigitsFrom(d, i + 1)
    ELSE <<>>
IssueRef(d) ==
    LET hits == {i \in 1..(Len(d) - 1) : d[i] = "#" /\ d[i + 1] \in Digits}
    IN  IF hits = {} THEN None
        ELSE LET i == CHOOSE h \in hits : \A g \in hits : h <= g
             IN  Some(Str(<<"#">> \o DigitsFrom(d, i + 1)))

\* str::to_uppercase
Uppercase(s) == [i \in 1..Len(s) |-> ToUpper(s[i])]

\* parser.rs parse_line
parse_line(s, line_number) ==
    IF ~line_has_comment_marker(s) THEN None
    ELSE LET caps == Captures(s, 1)
         IN  IF caps = None THEN None
             ELSE LET c == Unwrap(caps)
                      raw_description == Trim(c.description)
                  IN  Some(TodoItem(
                        line_number,
                        Str(Uppercase(c.keyword)),
                        IF IsSome(c.author)
                        THEN Some(Str(Trim(Unwrap(c.author)))) ELSE None,
                        IssueRef(raw_description),
                        Str(raw_description)))

\* The lines parsed: a lead, a first word and up to MaxTokens tokens.
Leads ==
    { <<>>, <<"/", "/", " ">>, <<"#", " ">>, <<"l", "e", "t", " ">>,
      <<"/", "/", " ", "_">> }
Words ==
    { <<"T", "O", "D", "O">>, <<"t", "o", "d", "o">>, <<"T", "o", "d", "o">>,
      <<"F", "I", "X", "M", "E">>, <<"H", "A", "C", "K">>,
      <<"H", "A", "C", "u212A">>, <<"X", "X", "X">> }
Tokens ==
    { <<"(", ")">>, <<"(", "a", "l", "i", "c", "e", ")">>, <<":">>, <<" ">>,
      <<"I", "t", "e", "m">>, <<"#", "4", "2">>,
      <<"E", "m", "p", "t", "y", " ", "a", "u", "t", "h", "o", "r">> }

RECURSIVE Concat(_)
Concat(ts) == IF ts = <<>> THEN <<>> ELSE Head(ts) \o Concat(Tail(ts))

\* The lines that begin with lead l.
Lines(l) ==
    { l \o w \o Concat(ts) :
        w \in Words,
        ts \in UNION { [1..n -> Tokens] : n \in 0..MaxTokens } }

\* parser.rs parse_line on one of the lines.
ParseCall ==
    /\ pc = "idle"
    /\ \E l \in Leads, ln \in 1..MaxLine :
       \E s \in Lines(l) :
         /\ text' = s
         /\ text_ln' = ln
         /\ parsed' = Some(parse_line(s, ln))
    /\ pc' = "parsed"
    /\ UNCHANGED <<store, ret, scanv, listv, trend_out, max, printv, blamev,
                   walkv>>

\* The caller takes the item.
ParseReturn ==
    /\ pc = "parsed"
    /\ pc' = "idle"
    /\ text' = <<>> /\ text_ln' = 0 /\ parsed' = None
    /\ UNCHANGED <<store, ret, scanv, listv, trend_out, max, printv, blamev,
                   walkv>>

\* parser.rs parse_content: the items of the lines, numbered from 1.
RECURSIVE parse_content(_, _)
parse_content(content, n) ==
    IF n = 0 THEN <<>>
    ELSE LET item == parse_line(content[n], n)
         IN  parse_content(content, n - 1)
             \o (IF IsSome(item) THEN <<Unwrap(item)>> ELSE <<>>)

\* ----------------------------------------------------------- the tree walker
\* scanner.rs SKIP_DIRS
SKIP_DIRS ==
    {".git", ".hg", ".svn", "node_modules", "target", "vendor", ".todo-track",
     "__pycache__", ".venv", "venv", "dist", "build"}

\* scanner.rs should_skip_dir
should_skip_dir(dir_name) == dir_name \in SKIP_DIRS

\* scanner.rs MAX_FILE_SIZE
MAX_FILE_SIZE == 1048576

\* The predicate of filter_entry, scanner.rs lines 55-62.
KeepEntry(is_dir, name) == IF is_dir THEN ~should_skip_dir(name) ELSE TRUE

\* WalkDir::new(root).into_iter().filter_entry(..): the walk yields the root
\* first (scan.rs hands in the canonical path, whose file_name is the
\* directory's own name) and then what is under it; an entry is yielded if
\* the predicate holds for it, and nothing under a directory that is not
\* yielded is visited.
Yielded(t, f) ==
    /\ KeepEntry(TRUE, t.root)
    /\ \A k \in 1..Len(f.dirs) : KeepEntry(TRUE, f.dirs[k])
    /\ KeepEntry(FALSE, f.name)

\* A regular file under the root: the directories from the root down to it,
\* its name, the size fs::metadata reports (None: metadata fails), whether
\* its bytes are valid UTF-8, and its lines.
RegularFile(dirs, name, size, utf8, content) ==
    [dirs |-> dirs, name |-> name, size |-> size, utf8 |-> utf8,
     content |-> content]

\* path.strip_prefix(root)
Relative(f) == f.dirs \o <<f.name>>

\* scanner.rs ScanResult
ScanResult(fts, files_scanned, files_skipped) ==
    [todos |-> fts, files_scanned |-> files_scanned,
     files_skipped |-> files_skipped]

\* The loop body of scan_directory, lines 71-113, for a yielded file.
VisitFile(res, f) ==
    IF f.size = None \/ Unwrap(f.size) > MAX_FILE_SIZE \/ ~f.utf8
    THEN [res EXCEPT !.files_skipped = @ + 1]
    ELSE LET items == parse_content(f.content, Len(f.content))
         IN  [res EXCEPT
                !.files_scanned = @ + 1,
                !.todos = @ \o [i \in 1..Len(items) |->
                                  FileTodo(Relative(f), items[i])]]

\* scanner.rs scan_directory: the yielded files among the first n of the
\* walk order are visited.
RECURSIVE scan_directory(_, _, _)
scan_directory(t, order, n) ==
    IF n = 0 THEN ScanResult(<<>>, 0, 0)
    ELSE LET res == scan_directory(t, order, n - 1)
         IN  IF Yielded(t, order[n]) THEN VisitFile(res, order[n]) ELSE res

\* The trees scanned.  Directory names, one of them on the skip-list; the
\* root's own name; a file of the largest size scanned, with a marker on its
\* second line.
DirNames == {"src", "vendor"}
RootNames == {"proj", "build"}
DirPaths == UNION { [1..n -> DirNames] : n \in 0..MaxDepth }
Contents ==
    { << <<"l", "e", "t">>,
         <<"/", "/", " ", "T", "O", "D", "O", ":", " ", "I", "t", "e", "m">> >> }
\* The files a directory d can hold.
FilePool(d) ==
    { RegularFile(d, "a.rs", sz, u, c) :
        sz \in {None, Some(MAX_FILE_SIZE), Some(MAX_FILE_SIZE + 1)},
        u \in BOOLEAN, c \in Contents }

\* The trees of root r: up to MaxFiles files, each in a directory of its own.
Trees(r) ==
    { [root |-> r, files |-> {fm[d] : d \in DOMAIN fm}] :
        fm \in { g \in UNION { [ds -> UNION {FilePool(d) : d \in ds}] :
                                 ds \in {x \in SUBSET DirPaths :
                                            Cardinality(x) <= MaxFiles} } :
                    \A d \in DOMAIN g : g[d].dirs = d } }

\* p is a prefix of q.
IsPrefix(p, q) == Len(p) <= Len(q) /\ SubSeq(q, 1, Len(p)) = p

\* The orders in which a walk can meet the files of t: the entries of a
\* directory come in any order, and what is under one directory comes
\* together.
WalkOrders(t) ==
    LET n == Cardinality(t.files)
    IN  { o \in [1..n -> t.files] :
            /\ \A i, j \in 1..n : i # j => o[i] # o[j]
            /\ \A i, j, k \in 1..n : (i < j /\ j < k) =>
                 \A d \in DirPaths :
                    (IsPrefix(d, o[i].dirs) /\ IsPrefix(d, o[k].dirs))
                        => IsPrefix(d, o[j].dirs) }

\* No scan_directory is running.
NoTree == [root |-> "", files |-> {}]

\* scanner.rs scan_directory on one of the trees.
ScanDirectory ==
    /\ pc = "idle"
    /\ \E r \in RootNames :
       \E t \in Trees(r) :
         \E o \in WalkOrders(t) :
            /\ tree' = t
            /\ scanned' = Some(scan_directory(t, o, Len(o)))
    /\ pc' = "scanned"
    /\ UNCHANGED <<store, ret, scanv, listv, trend_out, max, printv, blamev,
                   parsev>>

\* The caller takes the result.
ScanReturn ==
    /\ pc = "scanned"
    /\ pc' = "idle"
    /\ tree' = NoTree /\ scanned' = None
    /\ UNCHANGED <<store, ret, scanv, listv, trend_out, max, printv, blamev,
                   parsev>>

\* ---------------------------------------------------------------- commands
NoOpts == [blame |-> FALSE, repo |-> FALSE]

ScanIdle == arg = <<>> /\ pre = Db({}, {})
ListIdle ==
    /\ opts = NoOpts /\ mem = <<>> /\ mem0 = <<>> /\ files = {}
    /\ cur = None /\ idxq = <<>> /\ results = <<>> /\ upd_failed = {}
    /\ blame_calls = 0

PrintIdle == oldest = None /\ warned = FALSE /\ shown = <<>>

Init ==
    /\ snapshots = {}
    /\ todos = {}
    /\ txn = None
    /\ pc = "idle"
    /\ ret = None
    /\ ScanIdle
    /\ ListIdle
    /\ trend_out = <<>>
    /\ max = None
    /\ PrintIdle
    /\ blame_stdout = <<>> /\ blame_lines = {} /\ blame_result = None
    /\ text = <<>> /\ text_ln = 0 /\ parsed = None
    /\ tree = NoTree /\ scanned = None

\* commands/scan.rs run, lines 92-94: the scan's result fts is saved as one
\* snapshot; the clock reads ts and the store fails at `fail`.
ScanSave(fts, ts, fail) ==
    LET r == SaveSnapshot(Committed, fts, ts, fail)
    IN  /\ snapshots' = r.db.snapshots
        /\ todos' = r.db.todos
        /\ txn' = r.txn
        /\ ret' = Some(r.ret)
        /\ arg' = fts
        /\ pre' = Committed
        /\ pc' = "scan_exit"
        /\ UNCHANGED <<listv, trend_out, max, printv, purev>>

\* commands/scan.rs run
Scan ==
    /\ pc = "idle"
    /\ Cardinality(snapshots) < MaxSnapshots
    /\ \E fts \in ScanResults, ts \in Timestamps :
         \E fail \in FailPoints(fts) : ScanSave(fts, ts, fail)

\* update_git_blame as a bug would have it: the UPDATE without its WHERE.
update_git_blame_all(v, todo_id, git_author, git_date, ok) ==
    IF ok
    THEN [v EXCEPT !.todos =
            {[r EXCEPT !.git_author = Some(git_author),
                       !.git_date = Some(git_date)] : r \in @}]
    ELSE v

\* storage.rs update_git_blame: one UPDATE ... WHERE id = todo_id; a failed
\* statement changes nothing.
update_git_blame(v, todo_id, git_author, git_date, ok) ==
    IF ok
    THEN [v EXCEPT !.todos =
            {IF r.id = todo_id
             THEN [r EXCEPT !.git_author = Some(git_author),
                            !.git_date = Some(git_date)]
             ELSE r : r \in @}]
    ELSE v

\* Enrich as a bug would have it: the work tree is not asked for.
EnrichBlameOnly(blame, repo) == blame

\* commands/list.rs run, line 35: `blame && git::is_git_repo(&root)`.
Enrich(blame, repo) == blame /\ repo

\* commands/list.rs run, lines 13-35: the latest snapshot's rows are read,
\* and enrichment is entered only with --blame inside a work tree.
ListStart ==
    /\ pc = "idle"
    /\ \E blame \in BOOLEAN :
       \E repo \in (IF blame THEN BOOLEAN ELSE {FALSE}) :
         LET snapshot == get_latest_snapshot(View)
         IN  IF snapshot = None
             THEN /\ ret' = Some(Err)
                  /\ pc' = "list_exit"
                  /\ UNCHANGED listv
             ELSE \E m \in get_todos_for_snapshot(View, Unwrap(snapshot).id) :
                    /\ opts' = [blame |-> blame, repo |-> repo]
                    /\ mem' = m
                    /\ mem0' = m
                    /\ files' = IF Enrich(blame, repo)
                                THEN {m[i].file_path : i \in DOMAIN m}
                                ELSE {}
                    /\ pc' = IF Enrich(blame, repo) THEN "list_files"
                             ELSE "list_print"
                    /\ UNCHANGED <<ret, cur, idxq, results, upd_failed,
                                   blame_calls>>
    /\ UNCHANGED <<store, scanv, trend_out, max, printv, purev>>

\* by_file[f]: the indices of the file's rows, in Vec order.
RECURSIVE Indices(_, _, _)
Indices(m, f, n) ==
    IF n = 0 THEN <<>>
    ELSE IF m[n].file_path = f THEN Append(Indices(m, f, n - 1), n)
    ELSE Indices(m, f, n - 1)

\* Rest as a bug would have it: a blame failure ends the loop.
RestStopOnErr(fs, f, r) == IF r.ok THEN fs \ {f} ELSE {}

\* commands/list.rs run, lines 48 and 72-74: the keys of by_file still to
\* iterate after file f, whatever blame_file_lines returned for it.
Rest(fs, f, r) == fs \ {f}

\* commands/list.rs run, lines 48-54 and 72-74: the next file of by_file (a
\* HashMap: any order) is blamed once; a failure skips the file.
ListBlameFile ==
    /\ pc = "list_files"
    /\ \E f \in files, git \in GitAnswers :
         LET indices == Indices(mem, f, Len(mem))
             line_numbers == {mem[indices[k]].line_number : k \in DOMAIN indices}
             r == blame_file_lines(git, line_numbers)
         IN  /\ blame_calls' = blame_calls + r.calls
             /\ results' = (f :> r) @@ results
             /\ files' = Rest(files, f, r)
             /\ IF r.ok
                THEN cur' = Some(f) /\ idxq' = indices /\ pc' = "list_rows"
                ELSE UNCHANGED <<cur, idxq, pc>>
    /\ UNCHANGED <<store, ret, scanv, opts, mem, mem0, upd_failed,
                   trend_out, max, printv, purev>>

\* commands/list.rs run, lines 56-70: one row of the blamed file.  A line
\* the map holds is applied in memory and saved; a failed save is a warning.
ListRow ==
    /\ pc = "list_rows"
    /\ LET idx == Head(idxq)
           ln == mem[idx].line_number
           blame_map == results[Unwrap(cur)].map
       IN  IF ln \in DOMAIN blame_map
           THEN LET info == blame_map[ln]
                IN  /\ mem' = [mem EXCEPT
                                 ![idx].git_author = Some(info.author),
                                 ![idx].git_date = Some(info.date)]
                    /\ \E ok \in BOOLEAN :
                         LET v == update_git_blame(Committed, mem[idx].id,
                                                   info.author, info.date, ok)
                         IN  /\ snapshots' = v.snapshots
                             /\ todos' = v.todos
                             /\ upd_failed' = IF ok THEN upd_failed
                                              ELSE upd_failed \cup {mem[idx].id}
           ELSE UNCHANGED <<mem, snapshots, todos, upd_failed>>
    /\ idxq' = Tail(idxq)
    /\ IF Tail(idxq) = <<>>
       THEN cur' = None /\ pc' = "list_files"
       ELSE UNCHANGED <<cur, pc>>
    /\ UNCHANGED <<txn, ret, scanv, opts, mem0, files, results, blame_calls,
                   trend_out, max, printv, purev>>

\* The byte order (str::cmp) of the date strings of the model: the dates
\* FormatDate gives for the author-times of GitAnswers, the default
\* "9999-99-99" of a row without date, and "Unknown".
DateRank(d) ==
    CASE d = "1970-01-01" -> 1
      [] d = "2024-01-02" -> 2
      [] d = "9999-99-99" -> 3
      [] d = "Unknown" -> 4

\* commands/list.rs run, lines 93-94: `git_date.as_deref().unwrap_or(..)`.
DateKey(row) ==
    IF IsSome(row.git_date) THEN Unwrap(row.git_date) ELSE "9999-99-99"

\* commands/list.rs run, lines 92-96: sort_by is stable: ascending date
\* keys, rows of equal key in the order they had.
SortByDate(m) ==
    LET n == Len(m)
        p == CHOOSE q \in [1..n -> 1..n] :
                /\ \A i, j \in 1..n : i # j => q[i] # q[j]
                /\ \A i, j \in 1..n : i < j =>
                     \/ DateRank(DateKey(m[q[i]])) < DateRank(DateKey(m[q[j]]))
                     \/ /\ DateKey(m[q[i]]) = DateKey(m[q[j]])
                        /\ q[i] < q[j]
    IN  [i \in 1..n |-> m[p[i]]]

\* Ordered as a bug would have it: sorted by date without --blame too.
OrderedAlways(m, blame) == SortByDate(m)

\* commands/list.rs run, lines 82-97: without --blame the rows keep the
\* order they were read in.
Ordered(m, blame) == IF ~blame THEN m ELSE SortByDate(m)

\* Vec::truncate(n): the first n elements, all of them if there are fewer.
Truncate(m, n) == SubSeq(m, 1, IF n < Len(m) THEN n ELSE Len(m))

\* The values of --oldest.
Oldest == {None} \cup {Some(n) : n \in 0..(MaxTodos + 1)}

\* commands/list.rs run, lines 76-110: with enrichment over (every file of
\* by_file iterated) or not entered, --oldest is applied, the rows are
\* printed and run is Ok(()).
ListPrint ==
    /\ \/ pc = "list_print"
       \/ pc = "list_files" /\ files = {}
    /\ \E o \in Oldest :
         /\ oldest' = o
         /\ warned' = (IsSome(o) /\ ~opts.blame)
         /\ shown' = IF IsSome(o)
                     THEN Truncate(Ordered(mem, opts.blame), Unwrap(o))
                     ELSE mem
    /\ ret' = Some(Ok(0))
    /\ pc' = "list_exit"
    /\ UNCHANGED <<store, scanv, listv, trend_out, max, purev>>

\* -------------------------------------------------------------------- check
\* storage.rs get_latest_todo_count
get_latest_todo_count(v) ==
    LET s == get_latest_snapshot(v)
    IN  IF IsSome(s) THEN Some(Unwrap(s).todo_count) ELSE None

\* std::process::exit(code): the invocation ends there with that status.
ProcessExit(code) == <<"Exit", code>>

\* main.rs `fn main() -> Result<()>`: the status of the process.  An Err
\* that main returns is printed and the status is ExitCode::FAILURE (1); Ok
\* is status 0.
ExitStatus(r) ==
    IF r[1] = "Exit" THEN r[2]
    ELSE IF r = Err THEN 1
    ELSE 0

\* Exceeded as a bug would have it: the limit itself fails the gate.
ExceededAtMax(count, n) == count >= n

\* commands/check.rs run, lines 21 and 33: `count as usize > max`.
Exceeded(count, n) == count > n

\* The values of --max.
MaxArgs == 0..(MaxTodos + 1)

\* commands/check.rs run: no snapshot is the error NoSnapshots, returned
\* through `?` to main; a count above --max is process::exit(1).
Check ==
    /\ pc = "idle"
    /\ \E n \in MaxArgs :
         LET count == get_latest_todo_count(View)
         IN  /\ max' = Some(n)
             /\ ret' = Some(IF count = None THEN Err
                            ELSE IF Exceeded(Unwrap(count), n)
                                 THEN ProcessExit(1)
                                 ELSE Ok(0))
    /\ pc' = "check_exit"
    /\ UNCHANGED <<store, scanv, listv, trend_out, printv, purev>>

\* ------------------------------------------------------------------- trend
\* The Change column of commands/trend.rs: the mark printed ("--", an up or
\* down arrow, "="), the number after the arrow and the percentage in the
\* parentheses, each None when the text has none.
Change(mark, diff, pct) == [mark |-> mark, diff |-> diff, pct |-> pct]

\* f64::round of num/den for den > 0: to the nearest integer, a half away
\* from zero.  (`diff as f64 / prev as f64 * 100.0` is exact to the half for
\* the counts of the model.)
Round(num, den) ==
    IF num >= 0 THEN (2 * num + den) \div (2 * den)
    ELSE 0 - ((2 * (0 - num) + den) \div (2 * den))

\* commands/trend.rs run, lines 35-62: change_str.
ChangeStr(prev_count, todo_count) ==
    IF prev_count = None THEN Change("--", None, None)
    ELSE LET prev == Unwrap(prev_count)
         IN  IF prev = 0
             THEN IF todo_count > 0
                  THEN Change("up", Some(todo_count), None)
                  ELSE Change("--", None, None)
             ELSE LET diff == todo_count - prev
                      pct == Round(diff * 100, prev)
                  IN  IF diff > 0 THEN Change("up", Some(diff), Some(pct))
                      ELSE IF diff < 0
                           THEN Change("down", Some(diff), Some(pct))
                      ELSE Change("=", None, Some(0))

\* commands/trend.rs run, lines 32-78: one printed row for each snapshot,
\* prev_count being the count of the row before.
RECURSIVE TrendRows(_, _)
TrendRows(snaps, n) ==
    IF n = 0 THEN <<>>
    ELSE Append(TrendRows(snaps, n - 1),
                [id |-> snaps[n].id, timestamp |-> snaps[n].timestamp,
                 todo_count |-> snaps[n].todo_count,
                 change |-> ChangeStr(IF n = 1 THEN None
                                      ELSE Some(snaps[n - 1].todo_count),
                                      snaps[n].todo_count)])

\* commands/trend.rs run
Trend ==
    /\ pc = "idle"
    /\ LET snaps == get_snapshots(View)
       IN  IF snaps = <<>>
           THEN ret' = Some(Err) /\ UNCHANGED trend_out
           ELSE /\ trend_out' = TrendRows(snaps, Len(snaps))
                /\ ret' = Some(Ok(0))
    /\ pc' = "trend_exit"
    /\ UNCHANGED <<store, scanv, listv, max, printv, purev>>

\* A scan of a tree whose one file holds n markers, lines 1 to n.
CountScans ==
    { [k \in 1..n |->
         FileTodo(<<"a">>, TodoItem(k, "TODO", None, None, "fix this later"))]
      : n \in 0..MaxCount }

\* commands/scan.rs run, on such trees and a store that does not fail.
ScanCount ==
    /\ pc = "idle"
    /\ Cardinality(snapshots) < MaxHistory
    /\ \E fts \in CountScans, ts \in Timestamps : ScanSave(fts, ts, <<"none">>)

\* The invocation ends: its connection is dropped, and SQLite rolls back a
\* transaction that is still open.
Exit ==
    /\ pc \in {"scan_exit", "list_exit", "trend_exit", "check_exit"}
    /\ pc' = "idle"
    /\ txn' = None
    /\ ret' = None
    /\ arg' = <<>> /\ pre' = Db({}, {})
    /\ opts' = NoOpts /\ mem' = <<>> /\ mem0' = <<>> /\ files' = {}
    /\ cur' = None /\ idxq' = <<>> /\ results' = <<>> /\ upd_failed' = {}
    /\ blame_calls' = 0
    /\ trend_out' = <<>>
    /\ max' = None
    /\ oldest' = None /\ warned' = FALSE /\ shown' = <<>>
    /\ UNCHANGED <<snapshots, todos, purev>>

Next ==
    \/ Scan
    \/ ListStart
    \/ ListBlameFile
    \/ ListRow
    \/ ListPrint
    \/ Exit

Spec == Init /\ [][Next]_vars

\* The histories `trend` prints: scans of any count, then trend.
NextTrend ==
    \/ ScanCount
    \/ Trend
    \/ Exit

SpecTrend == Init /\ [][NextTrend]_vars

\* The gate: scans (failed ones too), then check.
NextCheck ==
    \/ Scan
    \/ Check
    \/ Exit

SpecCheck == Init /\ [][NextCheck]_vars

\* blame_file_lines alone, on the outputs of git.
NextBlame == BlameFile

SpecBlame == Init /\ [][NextBlame]_vars

\* parse_line alone, on the lines.
NextParse ==
    \/ ParseCall
    \/ ParseReturn

SpecParse == Init /\ [][NextParse]_vars

\* scan_directory alone, on the trees.
NextWalk ==
    \/ ScanDirectory
    \/ ScanReturn

SpecWalk == Init /\ [][NextWalk]_vars

\* ================================================================== claims
\* The row of table todos with the given id, as committed.
StoredRow(id) == CHOOSE r \in todos : r.id = id

ListPcs == {"list_files", "list_rows", "list_print", "list_exit"}

\* The enrichment pass of the running `list` is over.
PassDone == pc = "list_exit" /\ opts.blame /\ opts.repo

\* C1: in every reachable state, each snapshot row the connection sees has a
\* todo_count equal to the number of todo rows that reference its id, that is
\* to the length of get_todos_for_snapshot(id).
C1_CountMatchesRows ==
    \A s \in View.snapshots :
        \A m \in get_todos_for_snapshot(View, s.id) : s.todo_count = Len(m)

\* C1 witness: a save failed on a store that holds a two-marker snapshot with
\* an enriched row.
C1_Witness ==
    /\ pc = "scan_exit" /\ ret = Some(Err) /\ Len(arg) = 2
    /\ \E s \in snapshots : s.todo_count = 2
    /\ \E r \in todos : IsSome(r.git_author)

\* C2: a save_snapshot that returned an error leaves nothing of its attempt
\* visible: what the connection reads is what it read before the call.
C2_FailedSaveInvisible ==
    (pc = "scan_exit" /\ ret = Some(Err)) => View = pre

\* C3: the history is append-only and ordered by id.  A successful
\* save_snapshot returns an id above every id the store held, and
\* get_latest_snapshot then returns that row; save_snapshot (failed or not)
\* and update_git_blame keep every snapshot row the connection saw, with its
\* id, timestamp and todo_count; committed rows are never removed.
C3_AppendOnly ==
    [][ /\ snapshots \subseteq snapshots'
        /\ pc' # "idle" => View.snapshots \subseteq View'.snapshots
        /\ (pc = "idle" /\ pc' = "scan_exit" /\ ret' # Some(Err)) =>
             LET id == Unwrap(ret')[2]
                 latest == get_latest_snapshot(View')
             IN  /\ \A s \in View.snapshots : s.id < id
                 /\ IsSome(latest) /\ Unwrap(latest).id = id
                 /\ Unwrap(latest).todo_count = Len(arg')
      ]_vars

\* C3 witness: the second snapshot was saved after a row of the first was
\* enriched.
C3_Witness ==
    /\ pc = "scan_exit" /\ ret = Some(Ok(2))
    /\ Cardinality(snapshots) = 2
    /\ \E r \in todos : IsSome(r.git_author)

\* A stored row reproduces a marker: same keyword, description, author,
\* issue_ref, file_path and line_number, and no enrichment.
Reproduces(row, ft) ==
    /\ row.file_path = ft.file_path
    /\ row.line_number = ft.item.line_number
    /\ row.keyword = ft.item.keyword
    /\ row.author = ft.item.author
    /\ row.issue_ref = ft.item.issue_ref
    /\ row.description = ft.item.description
    /\ row.git_author = None /\ row.git_date = None

\* C4: after a successful save_snapshot, get_todos_for_snapshot on the
\* returned id yields one row per marker handed in (a bijection), each
\* reproducing its marker.
C4_RoundTrip ==
    (pc = "scan_exit" /\ IsSome(ret) /\ Unwrap(ret) # Err) =>
        \A m \in get_todos_for_snapshot(View, Unwrap(ret)[2]) :
            /\ Len(m) = Len(arg)
            /\ \E p \in [DOMAIN arg -> DOMAIN m] :
                 /\ \A i, j \in DOMAIN arg : i # j => p[i] # p[j]
                 /\ \A i \in DOMAIN arg : Reproduces(m[p[i]], arg[i])

\* The distinct file paths of the snapshot the running `list` read.
FilesOf(m) == {m[i].file_path : i \in DOMAIN m}

\* C5: a finished enrichment pass over N markers in K distinct files has
\* spawned exactly K blame processes, one for each file, whether or not
\* some of them failed; it never spawns more than K.
C5_OneCallPerFile ==
    /\ pc \in ListPcs => blame_calls <= Cardinality(FilesOf(mem0))
    /\ PassDone => /\ blame_calls = Cardinality(FilesOf(mem0))
                   /\ DOMAIN results = FilesOf(mem0)
                   /\ \A f \in DOMAIN results : results[f].calls = 1

\* C5 witness: two markers of one file, a single call.
C5_Witness ==
    /\ PassDone /\ Len(mem0) = 2 /\ Cardinality(FilesOf(mem0)) = 1
    /\ blame_calls = 1

\* What the pass makes of a row whose file's blame returned r.
Enriched(row, r) ==
    IF r.ok /\ row.line_number \in DOMAIN r.map
    THEN [row EXCEPT !.git_author = Some(r.map[row.line_number].author),
                     !.git_date = Some(r.map[row.line_number].date)]
    ELSE row

\* C6: a pass in which blame failed for a file still ends Ok; the rows of a
\* failed file are as before the pass, in memory and in the store; every row
\* of another file whose line the facility reported carries the reported
\* author and date in memory, and in the store unless its own update failed.
C6_PartialFailure ==
    (PassDone /\ \E f \in DOMAIN results : ~results[f].ok) =>
        /\ ret = Some(Ok(0))
        /\ Len(mem) = Len(mem0)
        /\ \A i \in DOMAIN mem0 :
             LET f == mem0[i].file_path
             IN  /\ f \in DOMAIN results
                 /\ mem[i] = Enriched(mem0[i], results[f])
                 /\ StoredRow(mem0[i].id) =
                      IF mem0[i].id \in upd_failed THEN mem0[i] ELSE mem[i]

\* C6 witness: one file failed, and a row of another file was enriched.
C6_Witness ==
    /\ PassDone
    /\ \E f, g \in DOMAIN results :
         /\ ~results[f].ok /\ results[g].ok
         /\ \E i \in DOMAIN mem :
              /\ mem[i].file_path = g
              /\ mem0[i].git_author = None
              /\ IsSome(StoredRow(mem[i].id).git_author)

\* C7: a step that calls update_git_blame changes at most git_author and
\* git_date of the row with the given id: its other fields, every other
\* todo row and every snapshot row stay; a failed call changes nothing and
\* the loop goes on to the remaining rows and files.
C7_UpdateFrame ==
    [][ pc = "list_rows" =>
          LET id == mem[Head(idxq)].id
          IN  /\ snapshots' = snapshots /\ txn' = txn
              /\ \A r \in todos : r.id # id => r \in todos'
              /\ \A r2 \in todos' :
                   \E r \in todos :
                      [r2 EXCEPT !.git_author = r.git_author,
                                 !.git_date = r.git_date] = r
              /\ Cardinality(todos') = Cardinality(todos)
              /\ id \in upd_failed' => todos' = todos
              /\ idxq' = Tail(idxq) /\ files' = files
              /\ pc' = IF idxq' = <<>> THEN "list_files" ELSE "list_rows"
      ]_vars

\* C7 witness: an update failed and the next row of the same file was still
\* saved, in a store that holds two snapshots.
C7_Witness ==
    /\ PassDone /\ Cardinality(snapshots) = 2
    /\ \E i, j \in DOMAIN mem :
         /\ i < j /\ mem[i].file_path = mem[j].file_path
         /\ mem[i].id \in upd_failed
         /\ mem0[j].git_author = None
         /\ IsSome(StoredRow(mem[j].id).git_author)

\* C8: `list --blame` outside a work tree never enters enrichment: no blame
\* process, no update_git_blame, the rows in memory and in the store are as
\* read, and the command ends Ok.
C8_NoRepoNoOp ==
    (pc \in ListPcs /\ opts.blame /\ ~opts.repo) =>
        /\ pc \in {"list_print", "list_exit"}
        /\ blame_calls = 0 /\ results = <<>> /\ upd_failed = {}
        /\ mem = mem0
        /\ \A i \in DOMAIN mem0 : mem0[i] \in todos
        /\ pc = "list_exit" => ret = Some(Ok(0))

\* C8 witness: `list --blame` outside a work tree has printed two rows.
C8_Witness ==
    /\ pc = "list_exit" /\ opts.blame /\ ~opts.repo /\ Len(mem) = 2
    /\ ret = Some(Ok(0))

\* The counts of the rows `trend` printed.
Counts == [i \in DOMAIN trend_out |-> trend_out[i].todo_count]
TrendDone == pc = "trend_exit" /\ ret = Some(Ok(0))

\* C9: every row after the first whose count equals the count of the row
\* before it (0 and 0 too) shows the "no change" text, which is not the
\* text of the first row ("no history yet").
C9_NoChangeExplicit ==
    TrendDone =>
        \A i \in 2..Len(trend_out) :
            Counts[i] = Counts[i - 1] =>
                /\ trend_out[i].change = Change("=", None, Some(0))
                /\ trend_out[i].change # trend_out[1].change

\* The change text shows the signed difference d.
ShowsDiff(c, d) ==
    \/ d > 0 /\ c.mark = "up" /\ c.diff = Some(d)
    \/ d < 0 /\ c.mark = "down" /\ c.diff = Some(d)
    \/ d = 0 /\ c.mark = "="

\* p is 100 * d / prev rounded to a nearest integer.
NearestPct(p, d, prev) ==
    /\ 2 * (100 * d - p * prev) <= prev
    /\ 2 * (p * prev - 100 * d) <= prev

\* C10: every row after the first shows the signed difference to the row
\* before it; with a previous count above 0 it shows the percentage, rounded
\* to the nearest integer; with a previous count of 0 and a count above 0 it
\* shows an increase of the count and no percentage.  Counts 10, 0, 5, 5 give
\* --, -10 (-100%), +5 with no percentage, 0 (0%).
C10_TrendDeltas ==
    TrendDone =>
        /\ \A i \in 2..Len(trend_out) :
             LET c == trend_out[i].change
                 prev == Counts[i - 1]
                 d == Counts[i] - prev
             IN  /\ ShowsDiff(c, d)
                 /\ prev > 0 => IsSome(c.pct) /\ NearestPct(Unwrap(c.pct), d, prev)
                 /\ (prev = 0 /\ Counts[i] > 0) =>
                        c = Change("up", Some(Counts[i]), None)
        /\ Counts = <<10, 0, 5, 5>> =>
             [i \in 1..4 |-> trend_out[i].change] =
                <<Change("--", None, None), Change("down", Some(0 - 10), Some(0 - 100)),
                  Change("up", Some(5), None), Change("=", None, Some(0))>>

\* The process status of the `check` that ran.
CheckStatus == ExitStatus(Unwrap(ret))

\* C11: `check --max N` on a store whose snapshot of highest id has count c
\* ends with status 0 exactly if c <= N and with status 1 exactly if c > N,
\* whatever the counts of the older snapshots.
C11_CheckGate ==
    (pc = "check_exit" /\ snapshots # {}) =>
        \A s \in snapshots :
            (\A o \in snapshots : o.id <= s.id) =>
                /\ CheckStatus = 0 <=> s.todo_count <= Unwrap(max)
                /\ CheckStatus = 1 <=> s.todo_count > Unwrap(max)

\* C11 witness: the gate passed at the limit although an older snapshot
\* holds more markers than --max allows.
C11_Witness ==
    /\ pc = "check_exit" /\ CheckStatus = 0
    /\ \E s, o \in snapshots :
         /\ o.id < s.id /\ \A x \in snapshots : x.id <= s.id
         /\ s.todo_count = Unwrap(max) /\ o.todo_count > Unwrap(max)

\* C12: `check` on a store without snapshot ends with a status that is
\* neither 0 nor the 1 of an exceeded count.
C12_NoSnapshotStatus ==
    (pc = "check_exit" /\ snapshots = {}) =>
        CheckStatus # 0 /\ CheckStatus # 1

\* The rows of the latest snapshot, as committed.
LatestRows ==
    {r \in todos : \A s \in snapshots : s.id <= r.snapshot_id}

\* C13: `list --oldest N` without --blame warns and prints the first
\* min(N, count) rows of the latest snapshot in the order of file_path, then
\* line_number: the rows printed are stored rows of that snapshot, in that
\* order, and no row left out comes before a row printed; the dates the rows
\* carry do not matter.
C13_OldestWithoutBlame ==
    (pc = "list_exit" /\ ret = Some(Ok(0)) /\ IsSome(oldest) /\ ~opts.blame) =>
        LET n == Unwrap(oldest)
            count == Cardinality(LatestRows)
        IN  /\ warned
            /\ Len(shown) = IF n < count THEN n ELSE count
            /\ \A i \in DOMAIN shown : shown[i] \in LatestRows
            /\ \A i, j \in DOMAIN shown : i < j =>
                 /\ shown[i] # shown[j]
                 /\ ~TodoBefore(shown[j], shown[i])
            /\ \A r \in LatestRows :
                 (\A i \in DOMAIN shown : shown[i] # r) =>
                    \A i \in DOMAIN shown : ~TodoBefore(r, shown[i])

\* C13 witness: `list --oldest 1` without --blame printed the first of two
\* rows although an earlier enrichment gave it the later date.
C13_Witness ==
    /\ pc = "list_exit" /\ oldest = Some(1) /\ ~opts.blame /\ warned
    /\ Len(mem) = 2 /\ Len(shown) = 1
    /\ IsSome(mem[1].git_date) /\ IsSome(mem[2].git_date)
    /\ DateRank(DateKey(mem[2])) < DateRank(DateKey(mem[1]))
    /\ shown[1] = mem[1]

\* C17: once git_author or git_date of a stored row is written, no later
\* step (of this or of a later `list --blame`) changes the row.
C17_EnrichedOnce ==
    [][ \A r \in todos :
          (IsSome(r.git_author) \/ IsSome(r.git_date)) => r \in todos'
      ]_vars

\* The commit the output names for final line l: the header of its block.
CommitOf(l) ==
    LET h == CHOOSE i \in DOMAIN blame_stdout :
                 blame_stdout[i].kind = "hdr" /\ blame_stdout[i].num = l
    IN  blame_stdout[h].text

\* The final lines the output reports.
Reported ==
    {blame_stdout[i].num : i \in {k \in DOMAIN blame_stdout :
                                    blame_stdout[k].kind = "hdr"}}

\* C18: blame_file_lines resolves every requested line the output reports;
\* two lines of the same commit resolve to the same author and date, and no
\* line is "Unknown" since the output carries author and author-time of
\* every commit it names.
C18_SameCommitSamePair ==
    IsSome(blame_result) =>
        LET r == Unwrap(blame_result)
            ls == blame_lines \cap Reported
        IN  /\ r.ok /\ DOMAIN r.map = ls
            /\ \A l \in ls :
                 /\ r.map[l].author # Unknown /\ r.map[l].date # Unknown
                 /\ \A k \in ls : CommitOf(k) = CommitOf(l) =>
                                     r.map[k] = r.map[l]

\* The item parse_line returned, None if it returned nothing.
Item == Unwrap(parsed)

\* The four keywords in ASCII upper case.
KeywordNames == {"TODO", "FIXME", "HACK", "XXX"}

\* ASCII letters in either case that spell a keyword stand at position i.
SpellsKeyword(s, i) ==
    \E k \in DOMAIN Keywords :
        /\ i + Len(Keywords[k]) - 1 <= Len(s)
        /\ \A j \in 1..Len(Keywords[k]) :
             /\ s[i + j - 1] \in UpperLetters \cup LowerLetters
             /\ ToUpper(s[i + j - 1]) = Keywords[k][j]

\* The length of the keyword spelled at position i.
SpelledLen(s, i) ==
    Len(Keywords[CHOOSE k \in DOMAIN Keywords :
                    /\ i + Len(Keywords[k]) - 1 <= Len(s)
                    /\ \A j \in 1..Len(Keywords[k]) :
                         ToUpper(s[i + j - 1]) = Keywords[k][j]])

\* The keyword spelled at position i is a word of its own.
Delimited(s, i) ==
    /\ SpellsKeyword(s, i)
    /\ WordBoundary(s, i) /\ WordBoundary(s, i + SpelledLen(s, i))

\* C14: a line in which the first keyword stands after a comment marker and
\* is followed at once by `()` gives an item whose author is present and
\* empty and whose description is the trimmed text after the parenthetical
\* and the colon.
C14_EmptyAuthor ==
    pc = "parsed" =>
        \A i \in 1..Len(text) :
            ( /\ line_has_comment_marker(SubSeq(text, 1, i - 1))
              /\ Delimited(text, i)
              /\ \A h \in 1..(i - 1) : ~SpellsKeyword(text, h)
              /\ LET p == i + SpelledLen(text, i)
                 IN  p + 1 <= Len(text) /\ text[p] = "(" /\ text[p + 1] = ")" )
            => LET q == i + SpelledLen(text, i) + 2
                   after == SubSeq(text, q, Len(text))
                   rest == IF after # <<>> /\ Head(after) = ":"
                           THEN Tail(after) ELSE after
               IN  /\ IsSome(Item)
                   /\ Unwrap(Item).author = Some("")
                   /\ Unwrap(Item).description = Str(Trim(rest))

\* C15: parse_line returns an item only for a line with a comment marker
\* and a keyword, in any letter case, that is a word of its own; a line
\* whose keywords are all parts of longer words gives nothing; the keyword
\* of an item is one of TODO, FIXME, HACK, XXX.
C15_WordBoundary ==
    pc = "parsed" =>
        /\ IsSome(Item) =>
             /\ line_has_comment_marker(text)
             /\ \E i \in 1..Len(text) : Delimited(text, i)
             /\ Unwrap(Item).keyword \in KeywordNames
        /\ (\A i \in 1..Len(text) : ~Delimited(text, i)) => Item = None

\* No directory strictly between the root and file f is on the skip-list.
Unpruned(f) == \A k \in 1..Len(f.dirs) : f.dirs[k] \notin SKIP_DIRS

\* File f is small enough and valid text.
Readable(f) ==
    IsSome(f.size) /\ Unwrap(f.size) <= MAX_FILE_SIZE /\ f.utf8

\* C16: whatever the root's own name, every file with no skip-listed
\* directory between the root and itself is counted once, in files_scanned
\* if it is at most 1 MiB of valid text (its markers are then recorded with
\* the root-relative path) and else in files_skipped; a file under a
\* skip-listed directory adds to no counter and to no marker.
C16_WalkCounts ==
    pc = "scanned" =>
        LET res == Unwrap(scanned)
            seen == {f \in tree.files : Unpruned(f)}
        IN  /\ res.files_scanned = Cardinality({f \in seen : Readable(f)})
            /\ res.files_skipped = Cardinality({f \in seen : ~Readable(f)})
            /\ {res.todos[i].file_path : i \in DOMAIN res.todos} =
                 {Relative(f) : f \in {g \in seen : Readable(g)}}

====
